---- MODULE Spec2Model ----
(***************************************************************************)
(* Model of the multi-GPU transcription orchestrator (src/main.py) and of  *)
(* the helpers of src/util.py it calls.                                    *)
(*                                                                         *)
(* main() enumerates the devices, collects the input files, distributes    *)
(* them round-robin, submits one gpu_worker task per non-empty queue to a  *)
(* multiprocessing pool, collects the tasks in submission order and prints *)
(* the average recognition speed.  Each gpu_worker loads the model once    *)
(* and then transcribes the files of its queue one after the other.        *)
(*                                                                         *)
(* Modelling conventions                                                   *)
(*   - Python None is the empty sequence <<>>, a present value v is <<v>>. *)
(*   - The file found at ordinal i (0-based in the code) is named i+1:     *)
(*     the orchestrator never inspects a path, so files are named by the   *)
(*     position collect_audio_files returned them in.                      *)
(*   - Sequences are 1-based: the code's queue index g is g+1 here.        *)
(*   - Durations are small integers chosen so that speech / elapsed is     *)
(*     exact; the average is kept as the pair sum, count it is the         *)
(*     quotient of.                                                        *)
(*   - Writing to the console is assumed not to fail, and a gpu_worker     *)
(*     ends by returning or by raising: a pool process killed from outside *)
(*     is not part of the model.                                           *)
(***************************************************************************)
EXTENDS Integers, Sequences, FiniteSets, TLC

\* ------------------------------------------------------------------ bounds

\* Largest number of input files and of devices explored with the worker pool.
MaxFiles == 3
MaxGpus == 2
\* Largest number of input files and of devices explored for the partition alone.
PartMaxFiles == 6
PartMaxGpus == 4
\* Largest number of input files and of devices explored for termination.
TermMaxFiles == 2
TermMaxGpus == 2

\* Tokens a --gpus argument is made of: device numbers, and one that int() rejects.
GpuTokens == {"0", "1", "x"}
\* Durations (seconds) the collaborator and the clock may produce.
SpeechDurations == {0, 4}
ElapsedTimes == {0, 2}
\* Duration (seconds) of every input explored with the worker pool.
AudioDuration == 4

\* Largest reading (a percentage, or an amount of memory) a sampling tick explores.
MaxLevel == 2
\* Largest number of devices pynvml reports.
MaxDevices == 1

None == <<>>
Some(v) == <<v>>

VARIABLES
    mainpc,                 \* where main() is
    gpu_ids,                \* main: gpu_ids
    audio_files,            \* main: audio_files
    files_per_gpu,          \* main: files_per_gpu
    loop_i,                 \* main: index of the loop main() is in
    tasks,                  \* main: tasks, with the state of each gpu_worker call
    all_recognition_speeds, \* main: all_recognition_speeds
    pool_errors,            \* "Worker process failed" lines main() printed (task numbers)
    report,                 \* the final report main() printed, None before
    measured,               \* per file: speech duration and transcription_time_sec of the job
                            \* that succeeded on it, None otherwise
    failed,                 \* files whose job raised inside the try of gpu_worker
    attempted,              \* files for which transcribe_file was called
    config,                 \* what the command line of main() turned out to be
    job,                    \* one call of transcribe_file or write_transcription_json
                            \* on its own: its inputs and what it left
    sup_pc,                 \* resource_monitor: where main() is
    sampler_pc,             \* resource_monitor: where the monitor_resources thread is
    child,                  \* resource_monitor: the state of the child process
    stop_event,             \* resource_monitor: stop_event
    pending,                \* resource_monitor: an exception is on its way through finally
    gpu_available,          \* resource_monitor: GPU_AVAILABLE
    peaks,                  \* resource_monitor: peaks
    file,                   \* system_resources.json, None while it does not exist
    writes,                 \* how many times system_resources.json was written
    ticks                   \* sampling ticks completed, counted up to MaxTicks

poolVars == <<mainpc, gpu_ids, audio_files, files_per_gpu, loop_i, tasks,
              all_recognition_speeds, pool_errors, report, measured, failed, attempted,
              config>>
monVars == <<sup_pc, sampler_pc, child, stop_event, pending, gpu_available, peaks, file,
             writes, ticks>>
vars == <<poolVars, job, monVars>>

\* ------------------------------------------------------------- pure helpers

SeqsUpTo(S, n) == UNION {[1..k -> S] : k \in 1..n}

Min(a, b) == IF a < b THEN a ELSE b
Max(a, b) == IF a > b THEN a ELSE b

RECURSIVE SumSeq(_)
SumSeq(s) == IF s = <<>> THEN 0 ELSE Head(s) + SumSeq(Tail(s))

\* int(g.strip()): the device number of a token, None where int() raises ValueError.
IntOf(tok) ==
    CASE tok = "0" -> Some(0)
      [] tok = "1" -> Some(1)
      [] OTHER -> None

\* get_available_gpus falling back to device 0 where a token is not a number.
get_available_gpus_Lenient(gpu_arg, cuda_count) ==
    IF gpu_arg # <<>>
    THEN IF \E k \in 1..Len(gpu_arg) : IntOf(gpu_arg[k]) = None
         THEN [raised |-> FALSE, ids |-> <<0>>]
         ELSE [raised |-> FALSE, ids |-> [k \in 1..Len(gpu_arg) |-> IntOf(gpu_arg[k])[1]]]
    ELSE IF cuda_count > 0
         THEN [raised |-> FALSE, ids |-> [k \in 1..cuda_count |-> k - 1]]
         ELSE [raised |-> FALSE, ids |-> <<0>>]

\* get_available_gpus(gpu_arg): gpu_arg is the token list of --gpus (<<>> when the
\* option is absent or empty), cuda_count the number of devices torch reports.
\* The result is [raised |-> TRUE] when a token is no integer, else the id list.
get_available_gpus(gpu_arg, cuda_count) ==
    IF gpu_arg # <<>>
    THEN IF \E k \in 1..Len(gpu_arg) : IntOf(gpu_arg[k]) = None
         THEN [raised |-> TRUE, ids |-> <<>>]
         ELSE [raised |-> FALSE, ids |-> [k \in 1..Len(gpu_arg) |-> IntOf(gpu_arg[k])[1]]]
    ELSE IF cuda_count > 0
         THEN [raised |-> FALSE, ids |-> [k \in 1..cuda_count |-> k - 1]]
         ELSE [raised |-> FALSE, ids |-> <<0>>]

\* files[:limit] for a list of n files: the number of files kept.
SliceLen(n, limit) ==
    IF limit >= 0 THEN Min(limit, n) ELSE Max(n + limit, 0)

\* collect_audio_files raising where the list it would return is empty.
collect_audio_files_EmptyRaises(kind, n, limit) ==
    LET count == CASE kind = "dir" ->
                        IF limit # None /\ limit[1] # 0 THEN SliceLen(n, limit[1]) ELSE n
                   [] kind = "file" ->
                        IF limit # None /\ limit[1] # 0 THEN SliceLen(1, limit[1]) ELSE 1
                   [] OTHER -> 0
    IN  [raised |-> count = 0, count |-> count]

\* collect_audio_files(input_path, limit): kind says what input_path is, n how many
\* supported files a directory holds, limit is None or the --limit value.
collect_audio_files(kind, n, limit) ==
    CASE kind = "dir" ->
            [raised |-> FALSE,
             count |-> IF limit # None /\ limit[1] # 0 THEN SliceLen(n, limit[1]) ELSE n]
      [] kind = "file" ->
            [raised |-> FALSE,
             count |-> IF limit # None /\ limit[1] # 0 THEN SliceLen(1, limit[1]) ELSE 1]
      [] OTHER -> [raised |-> TRUE, count |-> 0]

\* Where one job of gpu_worker can raise, in program order; "none" is a job that
\* raises nowhere.
\*   makedirs    os.makedirs or open(txt_file, "w") fails        (main.py 51, 65)
\*   transcribe  model.transcribe or the segment iterator raises  (main.py 67-81)
\*   write_json  write_transcription_json raises                  (main.py 87-94)
\*   read_json   open(json_file) or json.load raises              (main.py 143-144)
FailPoints == {"makedirs", "transcribe", "write_json", "read_json", "none"}

\* str(e), the text of the exception a job raised: one opaque value, no code reads it.
ErrorText == "exception"

\* A Python value that is true in a condition: not None and not 0.
Truthy(x) == x # None /\ x[1] # 0

\* a / b on the durations explored, where the quotient is exact; there is no value
\* for b = 0, where Python raises ZeroDivisionError.
Quotient(a, b) ==
    CASE b > 0 -> a \div b
      [] b < 0 -> 0 - (a \div (0 - b))
      [] OTHER -> 0

\* write_transcription_json reporting a speed of 0 where the elapsed time is 0.
write_transcription_json_ZeroSpeed(duration, speech_duration_sec, transcription_time_sec) ==
    LET duration_sec == IF Truthy(duration) THEN duration[1] ELSE 0
        divides == Truthy(transcription_time_sec) /\ transcription_time_sec[1] > 0
    IN  [raised              |-> FALSE,
         non_speech_duration |-> Max(duration_sec - speech_duration_sec, 0),
         speech_duration     |-> speech_duration_sec,
         run_time            |-> IF Truthy(transcription_time_sec)
                                 THEN transcription_time_sec ELSE None,
         recognition_speed   |-> IF divides
                                 THEN Some(Quotient(speech_duration_sec,
                                                    transcription_time_sec[1]))
                                 ELSE Some(0)]

\* write_transcription_json dividing whenever the elapsed time is not None.
write_transcription_json_IsNotNone(duration, speech_duration_sec, transcription_time_sec) ==
    LET duration_sec == IF Truthy(duration) THEN duration[1] ELSE 0
        divides == transcription_time_sec # None
    IN  [raised              |-> divides /\ transcription_time_sec[1] = 0,
         non_speech_duration |-> Max(duration_sec - speech_duration_sec, 0),
         speech_duration     |-> speech_duration_sec,
         run_time            |-> IF Truthy(transcription_time_sec)
                                 THEN transcription_time_sec ELSE None,
         recognition_speed   |-> IF divides
                                 THEN Some(Quotient(speech_duration_sec,
                                                    transcription_time_sec[1]))
                                 ELSE None]

\* write_transcription_json: the metadata document, from info.duration (None where
\* the attribute is missing or None), the sum of the segment lengths and
\* transcription_time_sec (None where the caller gives none).  raised says that the
\* division was executed with a divisor of 0.
write_transcription_json(duration, speech_duration_sec, transcription_time_sec) ==
    LET duration_sec == IF Truthy(duration) THEN duration[1] ELSE 0
        divides == Truthy(transcription_time_sec) /\ transcription_time_sec[1] > 0
    IN  [raised              |-> divides /\ transcription_time_sec[1] = 0,
         non_speech_duration |-> Max(duration_sec - speech_duration_sec, 0),
         speech_duration     |-> speech_duration_sec,
         run_time            |-> IF Truthy(transcription_time_sec)
                                 THEN transcription_time_sec ELSE None,
         recognition_speed   |-> IF divides
                                 THEN Some(Quotient(speech_duration_sec,
                                                    transcription_time_sec[1]))
                                 ELSE None]

TxtPath(f) == [kind |-> "txt", base |-> f]
JsonPath(f) == [kind |-> "json", base |-> f]

\* What config["vad_plot_enable"] and plot_waveform_with_vad make of the plot.
PlotOutcomes == {"off", "saved", "failed"}

NoArtifacts == [txt |-> FALSE, json |-> None, plot |-> FALSE]

\* transcribe_file on file f, raising at failAt (or not at all): what it leaves in
\* the folder of the file, the time it measured, and whether it raised.  The text
\* file is opened for writing before the collaborator is called; a plot that fails
\* is caught and printed.
transcribe_file(f, failAt, duration, speech, el, plot) ==
    LET w == write_transcription_json(duration, speech, Some(el))
    IN  CASE failAt = "makedirs" ->
                [raised |-> TRUE, reason |-> ErrorText, disk |-> NoArtifacts,
                 elapsed |-> None]
          [] failAt = "transcribe" ->
                [raised |-> TRUE, reason |-> ErrorText,
                 disk |-> [txt |-> TRUE, json |-> None, plot |-> FALSE],
                 elapsed |-> None]
          [] failAt = "write_json" \/ w.raised ->
                [raised |-> TRUE, reason |-> ErrorText,
                 disk |-> [txt |-> TRUE, json |-> None, plot |-> FALSE],
                 elapsed |-> Some(el)]
          [] OTHER ->
                [raised |-> FALSE, reason |-> "",
                 disk |-> [txt |-> TRUE, json |-> Some(w), plot |-> plot = "saved"],
                 elapsed |-> Some(el)]

\* ------------------------------------------------------------- gpu_worker

NewTask(gpu_id, files) ==
    [gpu_id |-> gpu_id, audio_files |-> files, st |-> "pending", j |-> 1,
     busy |-> FALSE, results |-> <<>>, recognition_speeds |-> <<>>]

Live(task) == task.st \in {"loading", "running"}
Finished(task) == task.st \in {"returned", "raised"}

\* TryBranch testing the speed for truth instead of "is not None": 0.0 is dropped.
TryBranchTruthy(task, f, json) ==
    [task EXCEPT
        !.recognition_speeds =
            IF json.recognition_speed # None /\ json.recognition_speed[1] # 0
            THEN Append(@, json.recognition_speed[1]) ELSE @,
        !.results = Append(@, [audio_file |-> f, txt_file |-> Some(TxtPath(f)),
                               json_file |-> Some(JsonPath(f)), error |-> None]),
        !.j = @ + 1,
        !.busy = FALSE]

\* The try body after transcribe_file returned: read recognition_speed back from the
\* metadata document, keep it when it is not None, append the success result.
TryBranch(task, f, json) ==
    [task EXCEPT
        !.recognition_speeds =
            IF json.recognition_speed # None
            THEN Append(@, json.recognition_speed[1]) ELSE @,
        !.results = Append(@, [audio_file |-> f, txt_file |-> Some(TxtPath(f)),
                               json_file |-> Some(JsonPath(f)), error |-> None]),
        !.j = @ + 1,
        !.busy = FALSE]

\* ExceptBranch keeping the paths of the artifacts in the failure result.
ExceptBranchKeepsPaths(task, f, reason) ==
    [task EXCEPT
        !.results = Append(@, [audio_file |-> f, txt_file |-> Some(TxtPath(f)),
                               json_file |-> Some(JsonPath(f)), error |-> Some(reason)]),
        !.j = @ + 1,
        !.busy = FALSE]

\* ExceptBranch without the try: the exception leaves the loop and gpu_worker.
ExceptBranchPropagates(task, f, reason) ==
    [task EXCEPT !.st = "raised", !.busy = FALSE]

\* except Exception: append the failure result and go on with the next file.
ExceptBranch(task, f, reason) ==
    [task EXCEPT
        !.results = Append(@, [audio_file |-> f, txt_file |-> None,
                               json_file |-> None, error |-> Some(reason)]),
        !.j = @ + 1,
        !.busy = FALSE]

\* A pool process takes the task and enters gpu_worker.
PickTask(t) ==
    /\ t \in 1..Len(tasks)
    /\ tasks[t].st = "pending"
    /\ Cardinality({u \in 1..Len(tasks) : Live(tasks[u])}) < Len(gpu_ids)
    /\ tasks' = [tasks EXCEPT ![t].st = "loading"]
    /\ UNCHANGED <<mainpc, gpu_ids, audio_files, files_per_gpu, loop_i,
                   all_recognition_speeds, pool_errors, report, measured, failed, attempted>>
    /\ UNCHANGED <<config, job, monVars>>

\* The import and the model load before the loop: they return, or raise out of
\* gpu_worker (nothing catches there).
LoadModel(t) ==
    /\ t \in 1..Len(tasks)
    /\ tasks[t].st = "loading"
    /\ \E ok \in BOOLEAN :
          tasks' = [tasks EXCEPT ![t].st = IF ok THEN "running" ELSE "raised"]
    /\ UNCHANGED <<mainpc, gpu_ids, audio_files, files_per_gpu, loop_i,
                   all_recognition_speeds, pool_errors, report, measured, failed, attempted>>
    /\ UNCHANGED <<config, job, monVars>>

\* for audio_file in audio_files: the call of transcribe_file on the next file.
BeginJob(t) ==
    /\ t \in 1..Len(tasks)
    /\ tasks[t].st = "running"
    /\ ~tasks[t].busy
    /\ tasks[t].j <= Len(tasks[t].audio_files)
    /\ tasks' = [tasks EXCEPT ![t].busy = TRUE]
    /\ attempted' = attempted \cup {tasks[t].audio_files[tasks[t].j]}
    /\ UNCHANGED <<mainpc, gpu_ids, audio_files, files_per_gpu, loop_i,
                   all_recognition_speeds, pool_errors, report, measured, failed>>
    /\ UNCHANGED <<config, job, monVars>>

\* The job in progress ends: transcribe_file returns or raises, the metadata is read
\* back, and the result of the job is appended.  The plot is left off: gpu_worker
\* reads nothing of it, and its failure is caught inside transcribe_file.
FinishJob(t) ==
    /\ t \in 1..Len(tasks)
    /\ tasks[t].st = "running"
    /\ tasks[t].busy
    /\ \E failAt \in FailPoints, speech \in SpeechDurations, el \in ElapsedTimes :
          LET f == tasks[t].audio_files[tasks[t].j]
              out == transcribe_file(f, failAt, Some(AudioDuration), speech, el, "off")
              ok == ~out.raised /\ failAt # "read_json"
          IN  /\ measured' = IF ok
                            THEN [measured EXCEPT ![f] =
                                     Some([speech |-> speech, elapsed |-> out.elapsed[1]])]
                            ELSE measured
              /\ failed' = IF ok THEN failed ELSE failed \cup {f}
              /\ tasks' = [tasks EXCEPT ![t] =
                    IF out.raised THEN ExceptBranch(@, f, out.reason)
                    ELSE IF failAt = "read_json" THEN ExceptBranch(@, f, ErrorText)
                    ELSE TryBranch(@, f, out.disk.json[1])]
    /\ UNCHANGED <<mainpc, gpu_ids, audio_files, files_per_gpu, loop_i,
                   all_recognition_speeds, pool_errors, report, attempted>>
    /\ UNCHANGED <<config, job, monVars>>

\* The loop is over: gpu_worker returns its results and recognition speeds.
WorkerReturn(t) ==
    /\ t \in 1..Len(tasks)
    /\ tasks[t].st = "running"
    /\ ~tasks[t].busy
    /\ tasks[t].j > Len(tasks[t].audio_files)
    /\ tasks' = [tasks EXCEPT ![t].st = "returned"]
    /\ UNCHANGED <<mainpc, gpu_ids, audio_files, files_per_gpu, loop_i,
                   all_recognition_speeds, pool_errors, report, measured, failed, attempted>>
    /\ UNCHANGED <<config, job, monVars>>

\* ------------------------------------------------------------------- main

\* gpu_ids = get_available_gpus(args.gpus); a ValueError ends main.
GetGpus(maxG) ==
    /\ mainpc = "get_gpus"
    /\ \E gpu_arg \in {<<>>} \cup SeqsUpTo(GpuTokens, maxG), cuda_count \in 0..maxG :
          LET r == get_available_gpus(gpu_arg, cuda_count)
          IN  /\ config' = IF \E k \in 1..Len(gpu_arg) : gpu_arg[k] = "x"
                            THEN "bad_gpus" ELSE "gpus_ok"
              /\ IF r.raised
                 THEN /\ mainpc' = "error"
                      /\ UNCHANGED gpu_ids
                 ELSE /\ mainpc' = "collect"
                      /\ gpu_ids' = r.ids
    /\ UNCHANGED <<audio_files, files_per_gpu, loop_i, tasks, all_recognition_speeds,
                   pool_errors, report, measured, failed, attempted>>
    /\ UNCHANGED <<job, monVars>>

\* audio_files = collect_audio_files(...), a FileNotFoundError ends main; then
\* files_per_gpu = [[] for _ in range(num_gpus)].
CollectAudioFiles(maxN) ==
    /\ mainpc = "collect"
    /\ \E kind \in {"dir", "file", "invalid"}, n \in 0..maxN,
          limit \in {None} \cup {Some(l) : l \in (-1)..maxN} :
          LET r == collect_audio_files(kind, n, limit)
          IN  /\ config' = CASE kind = "invalid" -> "bad_input"
                              [] kind = "dir" /\ n = 0 -> "empty_dir"
                              [] OTHER -> "some_input"
              /\ IF r.raised
                 THEN /\ mainpc' = "error"
                      /\ UNCHANGED <<audio_files, files_per_gpu, loop_i, measured>>
                 ELSE /\ mainpc' = "distribute"
                      /\ audio_files' = [k \in 1..r.count |-> k]
                      /\ files_per_gpu' = [g \in 1..Len(gpu_ids) |-> <<>>]
                      /\ loop_i' = 1
                      /\ measured' = [k \in 1..r.count |-> None]
    /\ UNCHANGED <<gpu_ids, tasks, all_recognition_speeds, pool_errors, report, failed,
                   attempted>>
    /\ UNCHANGED <<job, monVars>>

\* GpuIdx counting the ordinals from 1.
GpuIdxFromOne(i, num_gpus) == (i + 1) % num_gpus

\* GpuIdx filling the queues in blocks of num_gpus files.
GpuIdxBlocks(i, num_gpus) == (i \div num_gpus) % num_gpus

\* gpu_idx = i % num_gpus, for the 0-based ordinal i.
GpuIdx(i, num_gpus) == i % num_gpus

\* for i, audio_file in enumerate(audio_files): one iteration, or the end of the loop.
Distribute ==
    /\ mainpc = "distribute"
    /\ IF loop_i <= Len(audio_files)
       THEN /\ files_per_gpu' =
                  [files_per_gpu EXCEPT ![GpuIdx(loop_i - 1, Len(gpu_ids)) + 1] =
                        Append(@, audio_files[loop_i])]
            /\ loop_i' = loop_i + 1
            /\ UNCHANGED mainpc
       ELSE /\ mainpc' = "submit"
            /\ loop_i' = 1
            /\ UNCHANGED files_per_gpu
    /\ UNCHANGED <<gpu_ids, audio_files, tasks, all_recognition_speeds, pool_errors,
                   report, measured, failed, attempted>>
    /\ UNCHANGED <<config, job, monVars>>

\* Submit without the test of the queue: one task per device.
SubmitAll ==
    /\ mainpc = "submit"
    /\ IF loop_i <= Len(gpu_ids)
       THEN /\ tasks' = Append(tasks, NewTask(gpu_ids[loop_i], files_per_gpu[loop_i]))
            /\ loop_i' = loop_i + 1
            /\ UNCHANGED mainpc
       ELSE /\ mainpc' = "wait"
            /\ loop_i' = 1
            /\ UNCHANGED tasks
    /\ UNCHANGED <<gpu_ids, audio_files, files_per_gpu, all_recognition_speeds,
                   pool_errors, report, measured, failed, attempted>>
    /\ UNCHANGED <<config, job, monVars>>

\* for i, gpu_id in enumerate(gpu_ids): apply_async for a non-empty queue.
Submit ==
    /\ mainpc = "submit"
    /\ IF loop_i <= Len(gpu_ids)
       THEN /\ tasks' = IF files_per_gpu[loop_i] # <<>>
                        THEN Append(tasks, NewTask(gpu_ids[loop_i], files_per_gpu[loop_i]))
                        ELSE tasks
            /\ loop_i' = loop_i + 1
            /\ UNCHANGED mainpc
       ELSE /\ mainpc' = "wait"
            /\ loop_i' = 1
            /\ UNCHANGED tasks
    /\ UNCHANGED <<gpu_ids, audio_files, files_per_gpu, all_recognition_speeds,
                   pool_errors, report, measured, failed, attempted>>
    /\ UNCHANGED <<config, job, monVars>>

\* GetTask without the try around task.get(): the worker's exception ends main.
GetTaskUncaught(k, task, speeds, errors) ==
    IF task.st = "returned"
    THEN [speeds |-> speeds \o task.recognition_speeds, errors |-> errors,
          crashed |-> FALSE]
    ELSE [speeds |-> speeds, errors |-> errors, crashed |-> TRUE]

\* One iteration of "for task in tasks": task.get() returned the worker's value,
\* which is folded into all_recognition_speeds, or re-raised the worker's exception,
\* which is caught and printed.  The result is the pair speeds, errors.
GetTask(k, task, speeds, errors) ==
    IF task.st = "returned"
    THEN [speeds |-> speeds \o task.recognition_speeds, errors |-> errors,
          crashed |-> FALSE]
    ELSE [speeds |-> speeds, errors |-> Append(errors, k), crashed |-> FALSE]

\* CollectResult polling the task instead of blocking on it: a task that is not over
\* yet is passed by.
CollectResultNoWait ==
    /\ mainpc = "wait"
    /\ IF loop_i <= Len(tasks)
       THEN /\ IF tasks[loop_i].st = "returned"
               THEN all_recognition_speeds' =
                        all_recognition_speeds \o tasks[loop_i].recognition_speeds
               ELSE UNCHANGED all_recognition_speeds
            /\ loop_i' = loop_i + 1
            /\ UNCHANGED <<mainpc, pool_errors>>
       ELSE /\ mainpc' = "report"
            /\ UNCHANGED <<loop_i, all_recognition_speeds, pool_errors>>
    /\ UNCHANGED <<gpu_ids, audio_files, files_per_gpu, tasks, report, measured, failed,
                   attempted>>
    /\ UNCHANGED <<config, job, monVars>>

\* CollectResult with a task.get() that comes back only for a worker that returned:
\* the exception of a worker that raised is never delivered.
CollectResultOnlyReturned ==
    /\ mainpc = "wait"
    /\ IF loop_i <= Len(tasks)
       THEN /\ tasks[loop_i].st = "returned"
            /\ LET r == GetTask(loop_i, tasks[loop_i], all_recognition_speeds, pool_errors)
               IN  /\ all_recognition_speeds' = r.speeds
                   /\ pool_errors' = r.errors
                   /\ mainpc' = IF r.crashed THEN "error" ELSE mainpc
            /\ loop_i' = loop_i + 1
       ELSE /\ mainpc' = "report"
            /\ UNCHANGED <<loop_i, all_recognition_speeds, pool_errors>>
    /\ UNCHANGED <<gpu_ids, audio_files, files_per_gpu, tasks, report, measured, failed,
                   attempted>>
    /\ UNCHANGED <<config, job, monVars>>

\* for task in tasks: task.get() blocks until the task is over.
CollectResult ==
    /\ mainpc = "wait"
    /\ IF loop_i <= Len(tasks)
       THEN /\ Finished(tasks[loop_i])
            /\ LET r == GetTask(loop_i, tasks[loop_i], all_recognition_speeds, pool_errors)
               IN  /\ all_recognition_speeds' = r.speeds
                   /\ pool_errors' = r.errors
                   /\ mainpc' = IF r.crashed THEN "error" ELSE mainpc
            /\ loop_i' = loop_i + 1
       ELSE /\ mainpc' = "report"
            /\ UNCHANGED <<loop_i, all_recognition_speeds, pool_errors>>
    /\ UNCHANGED <<gpu_ids, audio_files, files_per_gpu, tasks, report, measured, failed,
                   attempted>>
    /\ UNCHANGED <<config, job, monVars>>

\* The final report: the average (as sum and count) and the number of files, or the
\* line "No recognition speed data available."
FinalReport(speeds) ==
    IF speeds # <<>>
    THEN [kind |-> "average", sum |-> SumSeq(speeds), count |-> Len(speeds),
          total_files |-> Len(speeds)]
    ELSE [kind |-> "no_data", sum |-> 0, count |-> 0, total_files |-> 0]

\* The jobs main's output names as unresolved: neither the "Worker process failed"
\* line nor the final report names a job or a device.
UnresolvedJobsReported == {}

PrintReport ==
    /\ mainpc = "report"
    /\ report' = Some(FinalReport(all_recognition_speeds))
    /\ mainpc' = "done"
    /\ UNCHANGED <<gpu_ids, audio_files, files_per_gpu, loop_i, tasks,
                   all_recognition_speeds, pool_errors, measured, failed, attempted>>
    /\ UNCHANGED <<config, job, monVars>>

\* ------------------------------------------------------------ specifications

Init ==
    /\ mainpc = "get_gpus"
    /\ gpu_ids = <<>>
    /\ audio_files = <<>>
    /\ files_per_gpu = <<>>
    /\ loop_i = 1
    /\ tasks = <<>>
    /\ all_recognition_speeds = <<>>
    /\ pool_errors = <<>>
    /\ report = None
    /\ measured = <<>>
    /\ failed = {}
    /\ attempted = {}
    /\ config = "unread"
    /\ job = [pc |-> "idle"]
    /\ sup_pc = "start"
    /\ sampler_pc = "unstarted"
    /\ child = "none"
    /\ stop_event = FALSE
    /\ pending = FALSE
    /\ gpu_available = FALSE
    /\ peaks = <<>>
    /\ file = None
    /\ writes = 0
    /\ ticks = "none"

MainGetGpus == GetGpus(MaxGpus)
MainCollectAudioFiles == CollectAudioFiles(MaxFiles)
Worker == \E t \in 1..Len(tasks) :
              PickTask(t) \/ LoadModel(t) \/ BeginJob(t) \/ FinishJob(t) \/ WorkerReturn(t)

Next ==
    \/ MainGetGpus
    \/ MainCollectAudioFiles
    \/ Distribute
    \/ Submit
    \/ CollectResult
    \/ PrintReport
    \/ Worker

Spec == Init /\ [][Next]_vars

\* Termination, on shorter file and device lists: main() goes on as long as it can
\* take a step, and so does the pool: a process takes up a waiting task, a loading
\* call and a job in progress come to an end.
TermGetGpus == GetGpus(TermMaxGpus)
TermCollectAudioFiles == CollectAudioFiles(TermMaxFiles)

Main ==
    \/ TermGetGpus
    \/ TermCollectAudioFiles
    \/ Distribute
    \/ Submit
    \/ CollectResult
    \/ PrintReport

NextTerm ==
    \/ Main
    \/ Worker

FairSpec == Init /\ [][NextTerm]_vars /\ WF_vars(Main) /\ WF_vars(Worker)

\* The partition alone, on longer file and device lists: main up to the end of the
\* distribution loop.
PartGetGpus == GetGpus(PartMaxGpus)
PartCollectAudioFiles == CollectAudioFiles(PartMaxFiles)

NextPartition ==
    \/ PartGetGpus
    \/ PartCollectAudioFiles
    \/ Distribute

SpecPartition == Init /\ [][NextPartition]_vars

\* ------------------------------------------------------- resource_monitor

Levels == 0..MaxLevel

\* What pynvml reports for one device in one tick: the memory is free or all in
\* use, the device idle or fully busy, and its memory controller as busy as it is.
GpuReadings ==
    {[memory_total_MB |-> MaxLevel, memory_used_MB |-> used,
      memory_free_MB |-> MaxLevel - used,
      gpu_utilization_percent |-> util, memory_utilization_percent |-> util] :
        used \in {0, MaxLevel}, util \in {0, MaxLevel}}

\* get_gpu_usage(): None without pynvml, or the readings of the devices (the
\* device with index i is at position i + 1).
get_gpu_usage(available, devices) == IF available THEN Some(devices) ELSE None

\* The entry peaks["gpu"].setdefault(i, ...) creates for a device first seen.
NewGpuPeak(gpu) ==
    [memory_total_MB |-> gpu.memory_total_MB,
     memory_used_MB |-> 0,
     memory_free_MB |-> gpu.memory_total_MB,
     gpu_utilization_percent |-> 0,
     memory_utilization_percent |-> 0]

\* The four assignments of the tick on the entry of one device.
GpuPeak(gpu_peak, gpu) ==
    [gpu_peak EXCEPT
        !.memory_used_MB = Max(@, gpu.memory_used_MB),
        !.memory_free_MB = Min(@, gpu.memory_free_MB),
        !.gpu_utilization_percent = Max(@, gpu.gpu_utilization_percent),
        !.memory_utilization_percent = Max(@, gpu.memory_utilization_percent)]

\* The first half of a tick with the last reading stored in place of the peak.
CpuRamPeaksLast(pk, cpu_percent, used, available) ==
    [pk EXCEPT !.cpu_percent = cpu_percent,
               !.ram_used_MB = used,
               !.ram_free_MB = available]

\* The first half of a tick: peaks of cpu_percent and ram.used, low of ram.available.
CpuRamPeaks(pk, cpu_percent, used, available) ==
    [pk EXCEPT !.cpu_percent = Max(@, cpu_percent),
               !.ram_used_MB = Max(@, used),
               !.ram_free_MB = Min(@, available)]

\* The second half of a tick: "if gpu_data:" and the loop over the devices.
GpuPeaks(pk, gpu_data) ==
    IF gpu_data = None \/ gpu_data = Some(<<>>)
    THEN pk
    ELSE [pk EXCEPT !.gpu =
            [i \in 1..Max(Len(@), Len(gpu_data[1])) |->
                IF i > Len(gpu_data[1]) THEN @[i]
                ELSE GpuPeak(IF i <= Len(@) THEN @[i] ELSE NewGpuPeak(gpu_data[1][i]),
                             gpu_data[1][i])]]

\* The peaks dict main() creates.
InitialPeaks(ram_total) ==
    [cpu_percent |-> 0, ram_total_MB |-> ram_total, ram_used_MB |-> 0,
     ram_free_MB |-> ram_total, gpu |-> <<>>]

\* The document main() writes (the timestamp is left out).
Output(pk) ==
    LET gpu_list == [i \in 1..Len(pk.gpu) |->
                        [gpu_index |-> i - 1, stats |-> pk.gpu[i]]]
    IN  [cpu_percent |-> pk.cpu_percent,
         ram_total_MB |-> pk.ram_total_MB,
         ram_used_MB |-> pk.ram_used_MB,
         ram_free_MB |-> pk.ram_free_MB,
         gpu |-> IF gpu_list # <<>> THEN Some(gpu_list) ELSE None]

\* One more tick completed: none, one, or more than one.
Ticked(n) == IF n = "none" THEN "one" ELSE "more"

\* main() up to monitor_thread.start(): the usage exit, or the peaks dict and the
\* running sampler thread.  GPU_AVAILABLE was set when the module was imported.
StartMonitor ==
    /\ sup_pc = "start"
    /\ \E argv_ok \in BOOLEAN, ram_total \in 1..MaxLevel, available \in BOOLEAN :
          IF argv_ok
          THEN /\ sup_pc' = "popen"
               /\ peaks' = InitialPeaks(ram_total)
               /\ gpu_available' = available
               /\ sampler_pc' = "check"
          ELSE /\ sup_pc' = "usage"
               /\ UNCHANGED <<peaks, gpu_available, sampler_pc>>
    /\ UNCHANGED <<child, stop_event, pending, file, writes, ticks, poolVars, job>>

\* subprocess.Popen starting the child without entering finally when it raises.
PopenNoFinally ==
    /\ sup_pc = "popen"
    /\ \E launched \in BOOLEAN :
          IF launched
          THEN /\ child' = "running"
               /\ sup_pc' = "wait"
               /\ UNCHANGED pending
          ELSE /\ child' = "no_launch"
               /\ sup_pc' = "crashed"
               /\ pending' = TRUE
    /\ UNCHANGED <<sampler_pc, stop_event, gpu_available, peaks, file, writes, ticks,
                   poolVars, job>>

\* subprocess.Popen: the child runs, or the call raises into finally.
Popen ==
    /\ sup_pc = "popen"
    /\ \E launched \in BOOLEAN :
          IF launched
          THEN /\ child' = "running"
               /\ sup_pc' = "wait"
               /\ UNCHANGED pending
          ELSE /\ child' = "no_launch"
               /\ sup_pc' = "set_stop"
               /\ pending' = TRUE
    /\ UNCHANGED <<sampler_pc, stop_event, gpu_available, peaks, file, writes, ticks,
                   poolVars, job>>

\* The child process ends, with exit code 0 or another.
ChildExits ==
    /\ child = "running"
    /\ \E status \in {"exit0", "exit1"} : child' = status
    /\ UNCHANGED <<sup_pc, sampler_pc, stop_event, pending, gpu_available, peaks, file,
                   writes, ticks, poolVars, job>>

\* process.wait() returns once the child has ended.
ProcessWait ==
    /\ sup_pc = "wait"
    /\ child \in {"exit0", "exit1"}
    /\ sup_pc' = "set_stop"
    /\ UNCHANGED <<sampler_pc, child, stop_event, pending, gpu_available, peaks, file,
                   writes, ticks, poolVars, job>>

\* KeyboardInterrupt raised in process.wait(), whatever the child is doing.
KeyboardInterrupt ==
    /\ sup_pc = "wait"
    /\ sup_pc' = "set_stop"
    /\ pending' = TRUE
    /\ UNCHANGED <<sampler_pc, child, stop_event, gpu_available, peaks, file, writes,
                   ticks, poolVars, job>>

\* finally: stop_event.set()
StopEventSet ==
    /\ sup_pc = "set_stop"
    /\ stop_event' = TRUE
    /\ sup_pc' = "join"
    /\ UNCHANGED <<sampler_pc, child, pending, gpu_available, peaks, file, writes, ticks,
                   poolVars, job>>

\* monitor_thread.join() returning without waiting for the thread.
MonitorThreadJoinNoWait ==
    /\ sup_pc = "join"
    /\ sup_pc' = "report"
    /\ UNCHANGED <<sampler_pc, child, stop_event, pending, gpu_available, peaks, file,
                   writes, ticks, poolVars, job>>

\* finally: monitor_thread.join() returns once the thread has ended.
MonitorThreadJoin ==
    /\ sup_pc = "join"
    /\ sampler_pc \in {"stopped", "dead"}
    /\ sup_pc' = "report"
    /\ UNCHANGED <<sampler_pc, child, stop_event, pending, gpu_available, peaks, file,
                   writes, ticks, poolVars, job>>

\* WriteSystemResources writing nothing where no tick was completed.
WriteSystemResourcesIfTicked ==
    /\ sup_pc = "report"
    /\ file' = IF ticks = "none" THEN file ELSE Some(Output(peaks))
    /\ writes' = IF ticks = "none" THEN writes ELSE writes + 1
    /\ sup_pc' = IF pending THEN "crashed" ELSE "done"
    /\ UNCHANGED <<sampler_pc, child, stop_event, pending, gpu_available, peaks, ticks,
                   poolVars, job>>

\* finally: the output is built from peaks and written to system_resources.json;
\* then main returns, or the exception that entered finally goes on.
WriteSystemResources ==
    /\ sup_pc = "report"
    /\ file' = Some(Output(peaks))
    /\ writes' = writes + 1
    /\ sup_pc' = IF pending THEN "crashed" ELSE "done"
    /\ UNCHANGED <<sampler_pc, child, stop_event, pending, gpu_available, peaks, ticks,
                   poolVars, job>>

\* LoopCheck without the test of stop_event: while True.
LoopCheckNoStop ==
    /\ sampler_pc = "check"
    /\ sampler_pc' = "read_cpu"
    /\ UNCHANGED <<sup_pc, child, stop_event, pending, gpu_available, peaks, file, writes,
                   ticks, poolVars, job>>

\* monitor_resources: the loop condition.
LoopCheck ==
    /\ sampler_pc = "check"
    /\ sampler_pc' = IF stop_event THEN "stopped" ELSE "read_cpu"
    /\ UNCHANGED <<sup_pc, child, stop_event, pending, gpu_available, peaks, file, writes,
                   ticks, poolVars, job>>

\* monitor_resources: psutil.cpu_percent and psutil.virtual_memory (the memory
\* available is what is not in use), then the three assignments; a read that raises
\* ends the thread, nothing catches it.
ReadCpuRam ==
    /\ sampler_pc = "read_cpu"
    /\ \E raises \in BOOLEAN, cpu_percent \in Levels, used \in 0..peaks.ram_total_MB :
          IF raises
          THEN /\ sampler_pc' = "dead"
               /\ UNCHANGED peaks
          ELSE /\ sampler_pc' = "read_gpu"
               /\ peaks' = CpuRamPeaks(peaks, cpu_percent, used,
                                       peaks.ram_total_MB - used)
    /\ UNCHANGED <<sup_pc, child, stop_event, pending, gpu_available, file, writes, ticks,
                   poolVars, job>>

\* monitor_resources: get_gpu_usage() and the loop over the devices; a pynvml call
\* that raises ends the thread, nothing catches it.
ReadGpu ==
    /\ sampler_pc = "read_gpu"
    /\ \E raises \in BOOLEAN, devices \in {<<>>} \cup SeqsUpTo(GpuReadings, MaxDevices) :
          IF raises /\ gpu_available
          THEN /\ sampler_pc' = "dead"
               /\ UNCHANGED <<peaks, ticks>>
          ELSE /\ sampler_pc' = "sleep"
               /\ peaks' = GpuPeaks(peaks, get_gpu_usage(gpu_available, devices))
               /\ ticks' = Ticked(ticks)
    /\ UNCHANGED <<sup_pc, child, stop_event, pending, gpu_available, file, writes,
                   poolVars, job>>

\* monitor_resources: time.sleep(interval) is over.
Sleep ==
    /\ sampler_pc = "sleep"
    /\ sampler_pc' = "check"
    /\ UNCHANGED <<sup_pc, child, stop_event, pending, gpu_available, peaks, file, writes,
                   ticks, poolVars, job>>

Supervisor ==
    \/ StartMonitor
    \/ Popen
    \/ ProcessWait
    \/ StopEventSet
    \/ MonitorThreadJoin
    \/ WriteSystemResources

Sampler ==
    \/ LoopCheck
    \/ ReadCpuRam
    \/ ReadGpu
    \/ Sleep

NextMon ==
    \/ Supervisor
    \/ Sampler
    \/ ChildExits
    \/ KeyboardInterrupt

SpecMon == Init /\ [][NextMon]_vars

\* The supervisor and the sampler thread are both scheduled as long as they can
\* take a step; the child and the interrupt owe nothing.
FairSpecMon == SpecMon /\ WF_vars(Supervisor) /\ WF_vars(Sampler)

\* One job on its own, with every outcome of the collaborator, the clock and the
\* file system: a call of transcribe_file, or a call of write_transcription_json.
JobSeconds == {0, 2, 4, 6}
JobElapsed == {-2, -1, 0, 1, 2}
Option(S) == {None} \cup {Some(v) : v \in S}

TranscribeFile ==
    /\ \E failAt \in FailPoints \ {"read_json"}, duration \in Option(JobSeconds),
          speech \in JobSeconds, el \in JobElapsed, plot \in PlotOutcomes :
          job' = [pc |-> "transcribed", failAt |-> failAt, plot |-> plot,
                  out |-> transcribe_file(1, failAt, duration, speech, el, plot)]
    /\ UNCHANGED <<poolVars, monVars>>

WriteTranscriptionJson ==
    /\ \E duration \in Option(JobSeconds), speech \in JobSeconds,
          transcription_time_sec \in Option(JobElapsed) :
          job' = [pc |-> "json_written", duration |-> duration, speech |-> speech,
                  time |-> transcription_time_sec,
                  out |-> write_transcription_json(duration, speech,
                                                   transcription_time_sec)]
    /\ UNCHANGED <<poolVars, monVars>>

NextJob ==
    \/ TranscribeFile
    \/ WriteTranscriptionJson

SpecJob == Init /\ [][NextJob]_vars

\* ------------------------------------------------------------------ claims

Tasks == 1..Len(tasks)
Queue(t) == tasks[t].audio_files
QueueSet(t) == {Queue(t)[k] : k \in 1..Len(Queue(t))}
NumGpus == Len(gpu_ids)
MainOver == mainpc \in {"report", "done"}

RECURSIVE ConcatAll(_)
ConcatAll(seqs) == IF seqs = <<>> THEN <<>> ELSE Head(seqs) \o ConcatAll(Tail(seqs))

\* The ordinal (1-based) of a file in the input list.
Ordinal(f) == CHOOSE i \in 1..Len(audio_files) : audio_files[i] = f

RECURSIVE InsertByOrdinal(_, _)
InsertByOrdinal(f, s) ==
    IF s = <<>> THEN <<f>>
    ELSE IF Ordinal(f) <= Ordinal(Head(s)) THEN <<f>> \o s
    ELSE <<Head(s)>> \o InsertByOrdinal(f, Tail(s))

RECURSIVE SortByOrdinal(_)
SortByOrdinal(s) ==
    IF s = <<>> THEN <<>> ELSE InsertByOrdinal(Head(s), SortByOrdinal(Tail(s)))

\* C1: a job that raises leaves a failure result with its reason and never ends the
\* worker: a worker raises only before its first job, the jobs it has gone past have
\* one result each (a failure with a reason exactly for the jobs that raised), a
\* worker that returned has attempted every job of its queue, and when main is over
\* every queue whose worker loaded its model has been attempted in full.
C1_FailureIsolation ==
    \A t \in Tasks :
        /\ tasks[t].st = "raised" => QueueSet(t) \cap attempted = {}
        /\ Len(tasks[t].results) = tasks[t].j - 1
        /\ \A k \in 1..Len(tasks[t].results) :
              /\ tasks[t].results[k].audio_file = Queue(t)[k]
              /\ (Queue(t)[k] \in failed) = (tasks[t].results[k].error # None)
        /\ tasks[t].st = "returned" => QueueSet(t) \subseteq attempted
        /\ MainOver /\ tasks[t].st # "raised" => QueueSet(t) \subseteq attempted

\* A worker returned after its first job failed and its second succeeded, while a
\* job of another worker failed too, and main is done.
C1_Witness ==
    /\ mainpc = "done"
    /\ \E t, u \in Tasks :
          /\ t # u
          /\ tasks[t].st = "returned" /\ tasks[u].st = "returned"
          /\ Len(Queue(t)) >= 2
          /\ tasks[t].results[1].error # None
          /\ tasks[t].results[2].error = None
          /\ tasks[u].results[1].error # None

\* C2: once the distribution loop is over there are exactly D queues, the file at
\* 0-based ordinal i is in queue i mod D, and the files of a queue are in the order
\* of the input list.
C2_RoundRobin ==
    mainpc = "submit" =>
        /\ Len(files_per_gpu) = NumGpus
        /\ \A i \in 0..Len(audio_files) - 1 :
              \E k \in 1..Len(files_per_gpu[(i % NumGpus) + 1]) :
                  files_per_gpu[(i % NumGpus) + 1][k] = audio_files[i + 1]
        /\ \A g \in 1..Len(files_per_gpu) :
              \A a, b \in 1..Len(files_per_gpu[g]) :
                  a < b => Ordinal(files_per_gpu[g][a]) < Ordinal(files_per_gpu[g][b])

\* Five files on two devices: device 0 gets ordinals 0, 2, 4 and device 1 gets 1, 3.
C2_Witness ==
    /\ mainpc = "submit"
    /\ Len(audio_files) = 5
    /\ files_per_gpu = <<<<1, 3, 5>>, <<2, 4>>>>

\* C3: once the distribution loop is over the queues hold N files in all, every
\* input file is at exactly one place of exactly one queue, two queues differ in
\* length by at most one, and the queues concatenated in device order and sorted by
\* ordinal are the input list.
C3_PartitionComplete ==
    mainpc = "submit" =>
        /\ Len(ConcatAll(files_per_gpu)) = Len(audio_files)
        /\ \A i \in 1..Len(audio_files) :
              Cardinality({p \in 1..Len(ConcatAll(files_per_gpu)) :
                              ConcatAll(files_per_gpu)[p] = audio_files[i]}) = 1
        /\ \A g, h \in 1..Len(files_per_gpu) :
              Len(files_per_gpu[g]) - Len(files_per_gpu[h]) <= 1
        /\ SortByOrdinal(ConcatAll(files_per_gpu)) = audio_files

\* Six files on four devices: two queues of two files and two of one, with an order
\* of concatenation that is not the input order.
C3_Witness ==
    /\ mainpc = "submit"
    /\ files_per_gpu = <<<<1, 5>>, <<2, 6>>, <<3>>, <<4>>>>
    /\ ConcatAll(files_per_gpu) # audio_files

\* C4: when main computes or has printed the report, every task it submitted is
\* over (returned or raised), no job is in progress, and every worker that returned
\* has a result for every job of its queue.
C4_Barrier ==
    (MainOver \/ report # None) =>
        \A t \in Tasks :
            /\ Finished(tasks[t])
            /\ ~tasks[t].busy
            /\ tasks[t].st = "returned" => Len(tasks[t].results) = Len(Queue(t))

\* The report is printed after two workers returned, the first one submitted with
\* two jobs, one of them failed.
C4_Witness ==
    /\ report # None
    /\ Len(tasks) = 2
    /\ \A t \in Tasks : tasks[t].st = "returned"
    /\ Len(Queue(1)) = 2
    /\ \E k \in 1..2 : tasks[1].results[k].error # None

\* C5: no two gpu_worker tasks with the same gpu_id are in a pool process at the
\* same time, so no two jobs of one device identifier are in progress together.
C5_DeviceExclusive ==
    \A t, u \in Tasks :
        (t # u /\ Live(tasks[t]) /\ Live(tasks[u])) => tasks[t].gpu_id # tasks[u].gpu_id

\* C6: when main is done, every worker that raised has its pool-level error line,
\* and every job of its queue that was not processed is reported as unresolved.
C6_UnprocessedReported ==
    mainpc = "done" =>
        \A t \in Tasks :
            tasks[t].st = "raised" =>
                /\ \E e \in 1..Len(pool_errors) : pool_errors[e] = t
                /\ (QueueSet(t) \ attempted) \subseteq UnresolvedJobsReported

\* The throughput of a job that succeeded with a positive elapsed time.
HasThroughput(f) == measured[f] # None /\ measured[f][1].elapsed > 0
Throughput(f) == measured[f][1].speech \div measured[f][1].elapsed

\* The throughputs of the jobs of a queue that have one, in queue order.
RECURSIVE QueueThroughputs(_)
QueueThroughputs(q) ==
    IF q = <<>> THEN <<>>
    ELSE (IF HasThroughput(Head(q)) THEN <<Throughput(Head(q))>> ELSE <<>>)
             \o QueueThroughputs(Tail(q))

RECURSIVE SumOver(_)
SumOver(S) ==
    IF S = {} THEN 0
    ELSE LET f == CHOOSE x \in S : TRUE IN Throughput(f) + SumOver(S \ {f})

\* C7: a worker that raised never ends main, it is reported once on its own line,
\* and when main is over the speeds it holds are the throughputs of the jobs of
\* every worker that returned, in submission order; the report counts them all.
C7_WorkerFailureContained ==
    /\ tasks # <<>> => mainpc # "error"
    /\ MainOver =>
          /\ all_recognition_speeds =
                ConcatAll([t \in Tasks |->
                              IF tasks[t].st = "returned"
                              THEN QueueThroughputs(Queue(t)) ELSE <<>>])
          /\ pool_errors = SelectSeq([t \in Tasks |-> t], LAMBDA t : tasks[t].st = "raised")
    /\ mainpc = "done" =>
          report[1].count =
              Cardinality({f \in 1..Len(audio_files) :
                              /\ HasThroughput(f)
                              /\ \E t \in Tasks : tasks[t].st = "returned" /\ f \in QueueSet(t)})

\* The first worker submitted raised, the second returned a job of throughput 2, and
\* the report gives the average over that job.
C7_Witness ==
    /\ mainpc = "done"
    /\ Len(tasks) = 2
    /\ tasks[1].st = "raised"
    /\ tasks[2].st = "returned"
    /\ pool_errors = <<1>>
    /\ report = Some([kind |-> "average", sum |-> 2, count |-> 1, total_files |-> 1])

\* The jobs that finished without failure and had an elapsed time > 0.
Eligible == {f \in 1..Len(audio_files) : f \notin failed /\ HasThroughput(f)}

\* C8: the report gives the mean (sum over count) of the throughputs of exactly the
\* jobs that finished without failure with an elapsed time > 0, a throughput of 0
\* included, and gives no average when there is no such job.
C8_AggregateThroughput ==
    mainpc = "done" =>
        IF Eligible = {}
        THEN report[1].kind = "no_data"
        ELSE /\ report[1].kind = "average"
             /\ report[1].count = Cardinality(Eligible)
             /\ report[1].total_files = Cardinality(Eligible)
             /\ report[1].sum = SumOver(Eligible)

\* Three jobs: speech 4 s in 2 s, a failure, and speech 0 s in 2 s: the average is
\* over the two successes, (2 + 0) / 2.
C8_Witness ==
    /\ mainpc = "done"
    /\ Len(audio_files) = 3
    /\ Cardinality(failed) = 1
    /\ \E f, g \in Eligible : Throughput(f) = 2 /\ Throughput(g) = 0
    /\ report = Some([kind |-> "average", sum |-> 2, count |-> 2, total_files |-> 2])

\* The jobs with an undefined throughput: failed, never run, or elapsed time 0.
Undefined == {f \in 1..Len(audio_files) : f \in failed \/ ~HasThroughput(f)}
Positive == {f \in 1..Len(audio_files) : f \notin Undefined /\ Throughput(f) > 0}

\* C9 as stated: the mean is over the jobs of non-null, positive throughput only.
C9_OnlyPositive ==
    mainpc = "done" =>
        /\ report[1].count = Cardinality(Positive)
        /\ report[1].sum = SumOver(Positive)

\* C9 as amended: the mean is over the jobs of non-null throughput (0 included);
\* a job of undefined throughput adds nothing to the sum or the count, in the
\* worker's list, in main's list and in the report.
C9_OnlyDefined ==
    /\ \A t \in Tasks :
          Len(tasks[t].recognition_speeds) =
              Cardinality({k \in 1..Len(tasks[t].results) : Queue(t)[k] \notin Undefined})
    /\ Len(all_recognition_speeds) <= Len(audio_files) - Cardinality(Undefined)
    /\ mainpc = "done" =>
          /\ report[1].count = Len(audio_files) - Cardinality(Undefined)
          /\ report[1].sum = SumOver({f \in 1..Len(audio_files) : f \notin Undefined})

\* Three jobs: a failure, one with elapsed time 0 and one of throughput 0: the
\* report averages over the last one alone.
C9_Witness ==
    /\ mainpc = "done"
    /\ Len(audio_files) = 3
    /\ \E f, g, h \in 1..3 :
          /\ f \in failed
          /\ measured[g] # None /\ measured[g][1].elapsed = 0
          /\ HasThroughput(h) /\ Throughput(h) = 0
    /\ report = Some([kind |-> "average", sum |-> 0, count |-> 1, total_files |-> 1])

\* A run in which every job was attempted and failed.
AllJobsFailed ==
    /\ audio_files # <<>>
    /\ \A f \in 1..Len(audio_files) : f \in attempted /\ f \in failed

\* C10: the report of a run whose jobs all failed differs from the report of the run
\* on an empty input, which holds no speed at all.
C10_OutcomesDistinct ==
    (mainpc = "done" /\ AllJobsFailed) => report # Some(FinalReport(<<>>))

\* A result is a failure (a reason, no path) or a success (no reason, both paths).
IsFailureResult(r) == r.error # None /\ r.txt_file = None /\ r.json_file = None
IsSuccessResult(r) ==
    /\ r.error = None
    /\ r.txt_file = Some(TxtPath(r.audio_file))
    /\ r.json_file = Some(JsonPath(r.audio_file))

\* C11: a gpu_worker that returned holds exactly one result per job of its queue,
\* in queue order, and every result a worker holds is a failure or a success, never
\* both and never neither.
C11_OneResultPerJob ==
    \A t \in Tasks :
        /\ Len(tasks[t].results) <= Len(Queue(t))
        /\ tasks[t].st = "returned" =>
              /\ Len(tasks[t].results) = Len(Queue(t))
              /\ \A k \in 1..Len(Queue(t)) : tasks[t].results[k].audio_file = Queue(t)[k]
        /\ \A k \in 1..Len(tasks[t].results) :
              IsFailureResult(tasks[t].results[k]) # IsSuccessResult(tasks[t].results[k])

\* A worker returned with three results in queue order: a success, a failure and a
\* success.
C11_Witness ==
    \E t \in Tasks :
        /\ tasks[t].st = "returned"
        /\ Len(tasks[t].results) = 3
        /\ IsSuccessResult(tasks[t].results[1])
        /\ IsFailureResult(tasks[t].results[2])
        /\ IsSuccessResult(tasks[t].results[3])

\* main has collected its input list, and has not raised.
Collected == mainpc \in {"distribute", "submit", "wait", "report", "done"}

\* C17: an empty input list is a successful no-op: a directory without a supported
\* file is no error, and once the list main collected is empty there is one empty
\* queue per device, no gpu_worker call is ever submitted, no job is attempted,
\* nothing fails, and main ends with the report that holds no figure.
C17_EmptyInputNoOp ==
    /\ config = "empty_dir" => Collected /\ audio_files = <<>>
    /\ Collected /\ audio_files = <<>> =>
          /\ Len(files_per_gpu) = NumGpus
          /\ \A g \in 1..NumGpus : files_per_gpu[g] = <<>>
          /\ tasks = <<>>
          /\ attempted = {}
          /\ failed = {}
          /\ pool_errors = <<>>
          /\ mainpc = "done" => report = Some(FinalReport(<<>>))

\* main is over on an empty directory, with two devices and two empty queues.
C17_Witness ==
    /\ config = "empty_dir"
    /\ mainpc = "done"
    /\ NumGpus = 2
    /\ files_per_gpu = << <<>>, <<>> >>
    /\ report # None

Artifacts(disk) ==
    (IF disk.txt THEN 1 ELSE 0) + (IF disk.json # None THEN 1 ELSE 0)
        + (IF disk.plot THEN 1 ELSE 0)

\* C12: a call of transcribe_file that returned left exactly two artifacts, the text
\* file and the metadata document, and a call whose collaborator raised before any
\* segment left no artifact at all.
C12_ArtifactsExact ==
    job.pc = "transcribed" =>
        /\ ~job.out.raised =>
              /\ Artifacts(job.out.disk) = 2
              /\ job.out.disk.txt
              /\ job.out.disk.json # None
        /\ job.failAt = "transcribe" => Artifacts(job.out.disk) = 0

\* C18: write_transcription_json never divides by 0; recognition_speed is the speech
\* duration divided by the elapsed time where the elapsed time is given and greater
\* than 0, and null for an elapsed time that is missing, 0 or negative; the
\* non-speech duration is the audio duration (0 where it is missing) minus the speech
\* duration, and 0 where that is negative.
C18_NoZeroDenominator ==
    job.pc = "json_written" =>
        LET t == job.time
            total == IF job.duration = None THEN 0 ELSE job.duration[1]
            out == job.out
        IN  /\ ~out.raised
            /\ IF t # None /\ t[1] > 0
               THEN /\ out.recognition_speed # None
                    /\ out.recognition_speed[1] * t[1] = job.speech
               ELSE out.recognition_speed = None
            /\ out.non_speech_duration >= 0
            /\ out.non_speech_duration =
                  IF total >= job.speech THEN total - job.speech ELSE 0

\* write_transcription_json was called with an elapsed time of 0 and more speech
\* than audio: the speed is null and the non-speech duration 0.
C18_Witness ==
    /\ job.pc = "json_written"
    /\ job.time = Some(0)
    /\ job.duration = Some(2)
    /\ job.speech = 4
    /\ job.out.recognition_speed = None
    /\ job.out.non_speech_duration = 0

SamplerEnded == sampler_pc \in {"stopped", "dead"}
SupervisorOver == sup_pc \in {"done", "crashed"}
\* The child is over for main: it exited, it was never launched, or main was
\* interrupted while waiting for it.
ChildOver == child \in {"exit0", "exit1", "no_launch"} \/ pending

\* C13: however the child ends (exit code 0, another exit code, a launch that
\* raises, an interrupt while waiting), resource_monitor.main sets the stop
\* signal, joins the sampler and writes system_resources.json exactly once: the
\* file is never written twice, it is written only after the stop signal is set and
\* the sampler has ended, main is over only with one write, and once the child is
\* over main does get there.
C13_StopAndFinalizeOnce ==
    /\ [](writes <= 1)
    /\ [](writes = 1 => stop_event /\ SamplerEnded /\ SupervisorOver)
    /\ [](SupervisorOver => writes = 1 /\ file # None)
    /\ [](ChildOver => <>SupervisorOver)

\* main was interrupted while the child was still running, and ended with one write.
C13_Witness ==
    /\ sup_pc = "crashed"
    /\ child = "running"
    /\ writes = 1
    /\ stop_event
    /\ sampler_pc = "stopped"

\* One device entry has not moved the wrong way.
GpuPeakMonotonic(old, new) ==
    /\ new.memory_total_MB = old.memory_total_MB
    /\ new.memory_used_MB >= old.memory_used_MB
    /\ new.memory_free_MB <= old.memory_free_MB
    /\ new.gpu_utilization_percent >= old.gpu_utilization_percent
    /\ new.memory_utilization_percent >= old.memory_utilization_percent

\* C14: in every step after peaks is created, cpu_percent, ram_used_MB and the
\* used memory and the two utilisation rates of every device do not decrease,
\* ram_free_MB and the free memory of every device do not increase, ram_total_MB
\* and the total memory of every device do not change, and no device entry goes.
C14_PeaksMonotonic ==
    [][peaks # <<>> =>
          /\ peaks'.cpu_percent >= peaks.cpu_percent
          /\ peaks'.ram_used_MB >= peaks.ram_used_MB
          /\ peaks'.ram_free_MB <= peaks.ram_free_MB
          /\ peaks'.ram_total_MB = peaks.ram_total_MB
          /\ Len(peaks'.gpu) >= Len(peaks.gpu)
          /\ \A i \in 1..Len(peaks.gpu) : GpuPeakMonotonic(peaks.gpu[i], peaks'.gpu[i])]_vars

\* After more than one tick every peak is at its highest and every low at 0, with
\* an entry for a device, while the sampler is about to read again.
C14_Witness ==
    /\ ticks = "more"
    /\ sampler_pc = "read_cpu"
    /\ peaks.cpu_percent = MaxLevel
    /\ peaks.ram_used_MB = peaks.ram_total_MB
    /\ peaks.ram_free_MB = 0
    /\ Len(peaks.gpu) = 1
    /\ peaks.gpu[1].memory_used_MB = MaxLevel
    /\ peaks.gpu[1].memory_free_MB = 0

\* C15: a tick whose read raises does not end the sampler, and leaves peaks as it
\* was before the tick: the sampler thread never dies, and as long as no tick was
\* completed and none is half done peaks is as main created it.
C15_FailedTickSkipped ==
    /\ sampler_pc # "dead"
    /\ peaks # <<>> /\ ticks = "none" /\ sampler_pc # "read_gpu" =>
          peaks = InitialPeaks(peaks.ram_total_MB)

\* A report with every field: the CPU peak, the three memory figures and the gpu
\* field, null or one entry per device with its index and its five figures.
Complete(doc) ==
    /\ DOMAIN doc = {"cpu_percent", "ram_total_MB", "ram_used_MB", "ram_free_MB", "gpu"}
    /\ doc.cpu_percent \in Levels
    /\ doc.ram_total_MB \in 1..MaxLevel
    /\ doc.ram_used_MB \in 0..doc.ram_total_MB
    /\ doc.ram_free_MB \in 0..doc.ram_total_MB
    /\ \/ doc.gpu = None
       \/ /\ doc.gpu # None
          /\ Len(doc.gpu[1]) >= 1
          /\ \A i \in 1..Len(doc.gpu[1]) :
                /\ doc.gpu[1][i].gpu_index = i - 1
                /\ DOMAIN doc.gpu[1][i].stats =
                      {"memory_total_MB", "memory_used_MB", "memory_free_MB",
                       "gpu_utilization_percent", "memory_utilization_percent"}

\* C16: however few ticks the sampler completed before the stop signal, none
\* included, main ends with system_resources.json written, and the document
\* written has every field; without a completed or half-done tick it holds the
\* values main created peaks with and a null gpu field.
C16_ImmediateExitReport ==
    /\ SupervisorOver => file # None
    /\ file # None =>
          /\ Complete(file[1])
          /\ ticks = "none" /\ sampler_pc = "stopped" =>
                file[1] = Output(InitialPeaks(peaks.ram_total_MB))

\* The child exited with code 0 and main is over while the sampler stopped at its
\* first loop check: the report holds the initial values.
C16_Witness ==
    /\ sup_pc = "done"
    /\ child = "exit0"
    /\ ticks = "none"
    /\ sampler_pc = "stopped"
    /\ file = Some(Output(InitialPeaks(MaxLevel)))

\* C20: peaks changes only in a step of the sampler thread (after main created
\* it), and main gets to read peaks, and writes the report, only when the sampler
\* thread has ended.
C20_NoAccumulatorRace ==
    [][/\ peaks' # peaks =>
             \/ sup_pc = "start"
             \/ sampler_pc \in {"read_cpu", "read_gpu"} /\ sup_pc' = sup_pc
       /\ sup_pc' = "report" => sampler_pc' \in {"stopped", "dead"}
       /\ file' # file => sampler_pc \in {"stopped", "dead"}]_vars

\* main is about to read peaks, which holds a device entry, after the sampler
\* stopped on the stop signal having completed more than one tick.
C20_Witness ==
    /\ sup_pc = "report"
    /\ sampler_pc = "stopped"
    /\ ticks = "more"
    /\ Len(peaks.gpu) = 1

\* How far the sampler is on its way from the start of a tick to its end.
SamplerRank ==
    CASE sampler_pc = "unstarted" -> 0
      [] sampler_pc = "read_cpu" -> 1
      [] sampler_pc = "read_gpu" -> 2
      [] sampler_pc = "sleep" -> 3
      [] sampler_pc = "check" -> 4
      [] OTHER -> 5

\* C21: once stop_event is set the sampler begins no tick: no loop check passes any
\* more, the sampler only moves on through the tick whose loop check it had passed
\* (its reads, its sleep) to the next loop check, and there it ends.
C21_NoTickAfterStop ==
    /\ [][stop_event =>
              /\ ~(sampler_pc = "check" /\ sampler_pc' = "read_cpu")
              /\ SamplerRank' >= SamplerRank]_vars
    /\ stop_event ~> SamplerEnded

\* The stop signal is set while a tick is half done: main waits in join and the
\* sampler is about to query the devices.
C21_Witness ==
    /\ stop_event
    /\ sup_pc = "join"
    /\ sampler_pc = "read_gpu"
    /\ ticks = "one"

\* The queues that hold a file, in the order of the devices.
RECURSIVE NonEmpty(_)
NonEmpty(queues) ==
    IF queues = <<>> THEN <<>>
    ELSE IF Head(queues) # <<>> THEN <<Head(queues)>> \o NonEmpty(Tail(queues))
    ELSE NonEmpty(Tail(queues))

\* The queues main() has gone past in its submission loop.
QueuesPassed ==
    CASE mainpc = "submit" -> SubSeq(files_per_gpu, 1, loop_i - 1)
      [] mainpc \in {"wait", "report", "done"} -> files_per_gpu
      [] OTHER -> <<>>

\* C22: the tasks main submitted are, in order, one for each non-empty queue it has
\* gone past, with that queue and the device of that queue, and none for an empty
\* queue; once the submission loop is over there are min(N, D) tasks for N files
\* and D devices.
C22_WorkersForNonEmptyQueues ==
    /\ Len(tasks) = Len(NonEmpty(QueuesPassed))
    /\ \A t \in Tasks :
          /\ Queue(t) = NonEmpty(QueuesPassed)[t]
          /\ Queue(t) # <<>>
          /\ \E g \in 1..NumGpus :
                files_per_gpu[g] = Queue(t) /\ gpu_ids[g] = tasks[t].gpu_id
    /\ mainpc \in {"wait", "report", "done"} =>
          Len(tasks) = Min(Len(audio_files), NumGpus)

\* One file and two devices: the submission loop is over with one task.
C22_Witness ==
    /\ mainpc = "wait"
    /\ Len(audio_files) = 1
    /\ NumGpus = 2
    /\ Len(tasks) = 1
    /\ files_per_gpu[2] = <<>>

\* C23: once main has submitted its tasks, every task comes to an end (its worker
\* returned or raised), main gets past every task.get(), prints the report and is
\* over; it is never blocked for good, whichever workers raise.
C23_MainTerminates ==
    /\ mainpc = "wait" ~> (\A t \in Tasks : Finished(tasks[t]))
    /\ mainpc = "wait" ~> (mainpc = "done" /\ report # None)
    /\ [](mainpc = "done" =>
            /\ report # None
            /\ \A t \in Tasks : Finished(tasks[t])
            /\ Len(pool_errors) = Cardinality({t \in Tasks : tasks[t].st = "raised"}))

\* main is over with its report after one worker raised and the other returned.
C23_Witness ==
    /\ mainpc = "done"
    /\ report # None
    /\ Len(tasks) = 2
    /\ tasks[1].st = "raised"
    /\ tasks[2].st = "returned"
    /\ pool_errors = <<1>>

====
